---- MODULE Spec2Model ----
(***************************************************************************)
(* The datalogger of src/src/main.c (dlgr_init, dlgr_LogData,              *)
(* dlgr_RetrieveData / dlgr_retrieve, dlgr_QueryMemorySize,                *)
(* dlgr_EditSettings) as a state machine over the process memory           *)
(* (dlgr_idx, dlgr_modname, dlgr_settings, the working directory) and the  *)
(* file system below the home directory.                                   *)
(*                                                                         *)
(* Build assumptions, stated where they are used:                          *)
(*   - LP64 Linux / glibc: pointers are 8 bytes, ftell() on a stream opened *)
(*     "ab" is the file's size, fwrite() to a NULL stream ends the process *)
(*     with SIGSEGV before any buffered byte reaches the file.             *)
(*   - the process may enter the directories it creates with mode 0600     *)
(*     (it runs with CAP_DAC_OVERRIDE), and no open/malloc call fails.     *)
(***************************************************************************)
EXTENDS Integers, Sequences, FiniteSets, TLC

(***************************************************************************)
(* Bounds of the model.                                                    *)
(***************************************************************************)
\* registrations made in one run of the process
MaxRegs == 2
\* dlgr_init is called from directories at most this deep below home
MaxDepth == 0
\* the active index is not advanced past this value
MaxIndex == 2
\* no file is made to hold more frames than this
MaxFrames == 2
\* iterations of its loop one thread makes
MaxIterations == 2

(***************************************************************************)
(* Program constants.                                                      *)
(***************************************************************************)
FBEGIN_SIZE == 6
FEND_SIZE == 4
FBEGIN == <<"F", "B", "E", "G", "I", "N">>
FEND == <<"F", "E", "N", "D">>
SIZE_FILE_HARDLIMIT == 1048576
SIZE_DIR_HARDLIMIT == 16777216
MAX_FILE_SIZE == 0
MAX_DIR_SIZE == 1
\* module_exec[] of modules.h lists eps_thread and eps_test; num_systems is
\* the number of entries compiled in.  The model takes both as enabled (with
\* both commented out, as in the snapshot, no slot exists at all and every
\* access to dlgr_settings is out of bounds).
num_systems == 2
\* sizeof(dataIn), dataIn being a void *
PtrSize == 8

ERR_SETTINGS_OPEN == -19
ERR_SETTINGS_ACCESS == -18
ERR_SETTINGS_SET == -17
ERR_DATA_OPEN == -16
ERR_DATA_REMOVE == -15
ERR_DATA_READ == -14
ERR_DEFAULT_CASE == -13
ERR_READ_NUM == -8
ERR_INVALID_INPUT == -7
ERR_REREGISTER == -6
ERR_MAXLOGSIZE_EXCEEDED == -4
ERR_CHDIR_FAIL == -3
\* every function returns 1 on success
OK == 1
\* the call did not return: the process was killed by a signal inside it
KILLED == 0

(***************************************************************************)
(* Text files: a file is the sequence of its characters.  fprintf("%d"),   *)
(* fgets and atoi are modelled by what they do on those characters.        *)
(***************************************************************************)
DigitChars == <<"0", "1", "2", "3", "4", "5", "6", "7", "8", "9">>

IsDigit(c) == \E d \in 1..10 : DigitChars[d] = c

DigitVal(c) == (CHOOSE d \in 1..10 : DigitChars[d] = c) - 1

RECURSIVE FmtNat(_)
FmtNat(n) ==
    IF n < 10 THEN <<DigitChars[n + 1]>>
    ELSE FmtNat(n \div 10) \o <<DigitChars[(n % 10) + 1]>>

\* printf("%d", n)
FmtInt(n) == IF n < 0 THEN <<"-">> \o FmtNat(0 - n) ELSE FmtNat(n)

RECURSIVE AtoiDigits(_, _)
AtoiDigits(s, acc) ==
    IF s = <<>> \/ ~IsDigit(Head(s)) THEN acc
    ELSE AtoiDigits(Tail(s), acc * 10 + DigitVal(Head(s)))

RECURSIVE SkipSpace(_)
SkipSpace(s) ==
    IF s # <<>> /\ Head(s) \in {" ", "\n"} THEN SkipSpace(Tail(s)) ELSE s

\* atoi(s): optional white space, optional sign, then digits up to the first
\* other character
Atoi(s) ==
    LET t == SkipSpace(s) IN
    IF t = <<>> THEN 0
    ELSE IF Head(t) = "-" THEN 0 - AtoiDigits(Tail(t), 0)
    ELSE IF Head(t) = "+" THEN AtoiDigits(Tail(t), 0)
    ELSE AtoiDigits(t, 0)

RECURSIVE LineLen(_, _)
\* number of characters one fgets(buf, n, f) takes from the unread text s:
\* at most n - 1, stopping after a newline
LineLen(s, n) ==
    IF s = <<>> \/ n <= 1 THEN 0
    ELSE IF Head(s) = "\n" THEN 1
    ELSE 1 + LineLen(Tail(s), n - 1)

\* fgets(buf, n, f) on the unread text s: the characters stored in buf
\* (<<>> stands for the NULL result at end of file)
FGets(s, n) == SubSeq(s, 1, LineLen(s, n))

\* what is left unread after that fgets
AfterFGets(s, n) == SubSeq(s, LineLen(s, n) + 1, Len(s))

\* x / y of C for y # 0: the quotient truncated toward zero
CDiv(x, y) ==
    LET ax == IF x < 0 THEN 0 - x ELSE x
        ay == IF y < 0 THEN 0 - y ELSE y
        q  == ax \div ay
    IN IF (x < 0) = (y < 0) THEN q ELSE 0 - q

(***************************************************************************)
(* Callers and their inputs.                                               *)
(***************************************************************************)
\* A module name is passed as a char *: the string it points to names the
\* directory, the address is what the registry stores and compares.  The
\* same string can live at two addresses (MODULE_NAME of two source files).
NullPtr == <<"", 0>>
Eps == <<"eps", 1>>
EpsAlias == <<"eps", 2>>
Acs == <<"acs", 1>>
Str(p) == p[1]
\* the callers of the single-module specification
OneModule == {Eps}

\* record sizes asked for at registration (0 is the invalid one)
RecordSizes == {0, 8, 12}
\* payload lengths passed to dlgr_LogData
PayloadSizes == {8, 12}
\* the bytes of the caller's buffers: a payload is `size` equal bytes
PayloadBytes == {"p1"}
\* a byte read from memory the caller never wrote
Indet == "??"
\* values found in memory that malloc returned and nothing wrote yet
UninitInts == {0, -123456789}
\* values passed to dlgr_EditSettings
EditValues == {0, 20, 40, 16777217}
EditSettingIds == {MAX_FILE_SIZE, MAX_DIR_SIZE, 2}
\* numbers of logs asked from dlgr_RetrieveData
RequestCounts == {-1, 0, 1, 2}

(***************************************************************************)
(* State.                                                                  *)
(***************************************************************************)
VARIABLES
    cwd,            \* working directory of the process, a path from home
    disk,           \* existing directories: path -> [txt, dat]
    dlgr_idx,       \* next free registry slot
    dlgr_modname,   \* slot -> registered name pointer
    dlgr_settings,  \* slot -> datalogger_t
    proc,           \* "running", "killed" by a signal, or "hung" in a loop
    run             \* main(), the flag `done` and the threads main() creates

vars == <<cwd, disk, dlgr_idx, dlgr_modname, dlgr_settings, proc, run>>

\* the state as one value: the functions of the program are operators from
\* such a value to their outcomes
State ==
    [cwd |-> cwd, disk |-> disk, dlgr_idx |-> dlgr_idx,
     dlgr_modname |-> dlgr_modname, dlgr_settings |-> dlgr_settings,
     proc |-> proc]

Home == <<>>
EmptyDir == [txt |-> <<>>, dat |-> <<>>]

\* a datalogger_t nothing has written yet: def lists the fields holding a
\* value, the others are indeterminate
FreshSlot ==
    [logIndex |-> 0, moduleLogSize |-> 0, maxFileSize |-> 0, maxDirSize |-> 0,
     def |-> {}]

\* the values a read of field f of slot s can yield (a field nothing wrote
\* is indeterminate: each read of it may yield any value)
FieldValues(s, f) == IF f \in s.def THEN {s[f]} ELSE UninitInts

\* slot s after field f was written
SetField(s, f, v) == [s EXCEPT ![f] = v, !.def = @ \cup {f}]

\* the memory main() allocates: dlgr_settings has num_systems elements; the
\* slots from num_systems on are the memory that follows the array
Slots == 0..(IF MaxRegs > num_systems THEN MaxRegs ELSE num_systems)

\* main(): the arrays are allocated and nothing is registered
Booted(d) ==
    [cwd |-> Home, disk |-> d, dlgr_idx |-> 0,
     dlgr_modname |-> [i \in Slots |-> NullPtr],
     dlgr_settings |-> [i \in Slots |-> FreshSlot],
     proc |-> "running"]

\* the threads of main(): thread[i], one for each entry of module_exec
Workers == 1..num_systems

\* A thread and its locals.  pc is its position: "loop" at the test of
\* while (!done), "body" inside the loop before it calls the datalogger, a
\* position inside the call (op, with its arguments arg, setting, byte and
\* the module mod), "ret" once the call returned rc, "exited" after
\* pthread_exit.  mod_idx and moduleLogSize are the locals of that name, file
\* and fdir name the file the stream fDataDat is open on, newIndex the index
\* in dataFileNewName, numReadLogs what dlgr_retrieve returns.  iterations
\* counts the iterations of the loop, lateIter and lateCall count the iterations and the
\* calls begun while done was set.  base is the working directory the call
\* would have started from had no other thread been inside a call, and want
\* the results the call has when no other thread runs.
IdleThread ==
    [pc |-> "loop", op |-> "none", mod |-> NullPtr, arg |-> 0, setting |-> 0,
     byte |-> "", mod_idx |-> 0, moduleLogSize |-> 0, file |-> 0,
     fdir |-> Home, newIndex |-> 0, numReadLogs |-> 0, rc |-> 0,
     iterations |-> 0, lateIter |-> 0, lateCall |-> 0, base |-> Home,
     want |-> {}]

\* main() before module_init: done = 0 (main.c 31), no thread created
RunInit ==
    [done |-> 0, main |-> "init", joined |-> 0,
     thr |-> [t \in Workers |-> IdleThread]]

\* first boot: nothing exists below home
Init ==
    /\ cwd = Home
    /\ disk = (Home :> EmptyDir)
    /\ dlgr_idx = 0
    /\ dlgr_modname = [i \in Slots |-> NullPtr]
    /\ dlgr_settings = [i \in Slots |-> FreshSlot]
    /\ proc = "running"
    /\ run = RunInit

\* what a call reports: rc is the value returned (KILLED when it does not
\* return); the other fields describe what a dlgr_LogData did on the way (the
\* index and size of the file it opened, the maxFileSize it compared with,
\* whether it rotated, the index it passed to remove(), whether that removed
\* a file, the bytes it appended) and what dlgr_RetrieveData left in output
Ret0 ==
    [rc |-> OK, idx |-> 0, size |-> 0, mfs |-> 0, rot |-> FALSE, old |-> 0,
     removed |-> FALSE, wrote |-> <<>>, out |-> <<>>]

Outcome(st, ret) == [st |-> st, ret |-> ret]

\* the memory and the files become those of st
Becomes(st) ==
    /\ cwd' = st.cwd
    /\ disk' = st.disk
    /\ dlgr_idx' = st.dlgr_idx
    /\ dlgr_modname' = st.dlgr_modname
    /\ dlgr_settings' = st.dlgr_settings
    /\ proc' = st.proc

\* the program takes the step to outcome o, a whole call made by the one
\* thread that runs
Apply(o) ==
    /\ Becomes(o.st)
    /\ UNCHANGED run

(***************************************************************************)
(* File system helpers.                                                    *)
(***************************************************************************)
IsDir(d, path) == path \in DOMAIN d

\* mkdir(path) when stat() does not find a directory there
MkdirIfAbsent(d, path) == IF IsDir(d, path) THEN d ELSE d @@ (path :> EmptyDir)

HasTxt(d, path, name) == name \in DOMAIN d[path].txt
HasDat(d, path, n) == n \in DOMAIN d[path].dat

\* fopen(name, "w"), fprintf, fclose
WriteTxt(d, path, name, text) ==
    [d EXCEPT ![path].txt =
        [f \in (DOMAIN @) \cup {name} |-> IF f = name THEN text ELSE @[f]]]

\* the file <n>.dat replaced by, or created with, the given bytes
WriteDat(d, path, n, bytes) ==
    [d EXCEPT ![path].dat =
        [f \in (DOMAIN @) \cup {n} |-> IF f = n THEN bytes ELSE @[f]]]

\* remove("<n>.dat")
RemoveDat(d, path, n) ==
    [d EXCEPT ![path].dat = [f \in (DOMAIN @) \ {n} |-> @[f]]]

\* size of <n>.dat, 0 when "ab" has just created it
DatSize(d, path, n) == IF HasDat(d, path, n) THEN Len(d[path].dat[n]) ELSE 0

DefaultSettingsText == FmtInt(8192) \o <<"\n">> \o FmtInt(4194304) \o <<"\n">>

SettingsText(mfs, mds) == FmtInt(mfs) \o <<"\n">> \o FmtInt(mds) \o <<"\n">>

\* the int atoi() yields for a buffer fgets() filled (NULL result: the buffer
\* was never written, atoi reads indeterminate bytes)
AtoiOfLine(line) == IF line = <<>> THEN UninitInts ELSE {Atoi(line)}

\* chdir("log") and chdir(moduleName) from the working directory
LogDir(st) == Append(st.cwd, "log")
ModDir(st, moduleName) == Append(LogDir(st), Str(moduleName))

(***************************************************************************)
(* dlgr_init                                                               *)
(***************************************************************************)
\* a variant that lets a size of 0 through
SizeRejectedBelowZero(maxLogSize) == maxLogSize < 0

\* if (maxLogSize < 1) return ERR_INVALID_INPUT
SizeRejected(maxLogSize) == maxLogSize < 1

\* The outcomes of dlgr_init(moduleName, maxLogSize) in state st.
InitOutcomes(st, moduleName, maxLogSize) ==
    LET logDir == LogDir(st)
        modDir == ModDir(st, moduleName)
        d1 == MkdirIfAbsent(MkdirIfAbsent(st.disk, logDir), modDir)
        hasModule == HasTxt(d1, modDir, "module.inf")
        hasIndex == HasTxt(d1, modDir, "index.inf")
        hasSettings == HasTxt(d1, modDir, "settings.cfg")
        \* module.inf: read when it exists, the argument is then ignored
        d2 == IF hasModule THEN d1
              ELSE WriteTxt(d1, modDir, "module.inf", FmtInt(maxLogSize))
        sizes == IF hasModule
                 THEN AtoiOfLine(FGets(d1[modDir].txt["module.inf"], 20))
                 ELSE {maxLogSize}
        \* index.inf and 0.dat
        d3 == IF hasIndex THEN d2
              ELSE WriteDat(WriteTxt(d2, modDir, "index.inf", <<"0", "\n">>),
                            modDir, 0, <<>>)
        indices == IF hasIndex
                   THEN AtoiOfLine(FGets(d1[modDir].txt["index.inf"], 20))
                   ELSE {0}
        \* settings.cfg: read when it exists; when it is created with the
        \* defaults, maxFileSize and maxDirSize of the slot are not assigned
        text == IF hasSettings THEN d1[modDir].txt["settings.cfg"] ELSE <<>>
        line1 == FGets(text, 20)
        line2 == FGets(AfterFGets(text, 20), 10)
        d4 == IF hasSettings THEN d3
              ELSE WriteTxt(d3, modDir, "settings.cfg", DefaultSettingsText)
        i == st.dlgr_idx
        named == [st EXCEPT !.dlgr_modname[i] = moduleName]
    IN
    IF SizeRejected(maxLogSize)
    THEN {Outcome(st, [Ret0 EXCEPT !.rc = ERR_INVALID_INPUT])}
    ELSE { LET s1 == SetField(SetField(st.dlgr_settings[i],
                                       "moduleLogSize", size),
                              "logIndex", index)
               s2 == SetField(SetField(s1, "maxFileSize", Atoi(line1)),
                              "maxDirSize", Atoi(line2))
           IN
           IF hasSettings /\ (line1 = <<>> \/ line2 = <<>>)
           THEN \* return ERR_SETTINGS_ACCESS from inside the directory
                Outcome([named EXCEPT !.disk = d3, !.cwd = modDir,
                                      !.dlgr_settings[i] = s1],
                        [Ret0 EXCEPT !.rc = ERR_SETTINGS_ACCESS])
           ELSE Outcome([named EXCEPT
                            !.disk = d4,
                            !.dlgr_settings[i] = IF hasSettings THEN s2 ELSE s1,
                            !.dlgr_idx = i + 1],
                        [Ret0 EXCEPT !.rc = OK, !.idx = index])
           : size \in sizes, index \in indices }

dlgr_init(moduleName, maxLogSize) ==
    /\ proc = "running"
    /\ dlgr_idx < MaxRegs
    /\ Len(cwd) <= MaxDepth
    /\ \E o \in InitOutcomes(State, moduleName, maxLogSize) : Apply(o)

(***************************************************************************)
(* The process ends (exit, kill or power cycle) and main() runs again: the *)
(* memory is allocated anew, the files stay.                               *)
(***************************************************************************)
Restart == \E o \in {Outcome(Booted(disk), Ret0)} : Apply(o)

(***************************************************************************)
(* Registry lookup, as every function after dlgr_init starts             *)
(***************************************************************************)
\* for (mod_idx = 0; mod_idx < num_systems; mod_idx++)
\*     if (dlgr_modname[mod_idx] == moduleName) break;
\* the addresses are compared, not the strings; without a match the loop
\* leaves mod_idx = num_systems, one past the last element of dlgr_settings
Lookup(st, moduleName) ==
    IF \E i \in 0..(num_systems - 1) : st.dlgr_modname[i] = moduleName
    THEN CHOOSE i \in 0..(num_systems - 1) :
            /\ st.dlgr_modname[i] = moduleName
            /\ \A j \in 0..(i - 1) : st.dlgr_modname[j] # moduleName
    ELSE num_systems

(***************************************************************************)
(* dlgr_LogData                                                            *)
(***************************************************************************)
\* if (size > moduleLogSize) return ERR_MAXLOGSIZE_EXCEEDED
PayloadRejected(size, moduleLogSize) == size > moduleLogSize

\* a variant that starts a new file only above maxFileSize
NeedsRotationAbove(fileSize, maxFileSize) == fileSize > maxFileSize

\* if (fileSize >= maxFileSize): a new file is started
NeedsRotation(fileSize, maxFileSize) == fileSize >= maxFileSize

\* what maxDirSize / maxFileSize can do: yield n, or trap (SIGFPE).  A zero
\* divisor is undefined: x86 traps, AArch64 yields 0
FilesKept(maxDirSize, maxFileSize) ==
    IF maxFileSize = 0
    THEN {[trap |-> TRUE, n |-> 0], [trap |-> FALSE, n |-> 0]}
    ELSE {[trap |-> FALSE, n |-> CDiv(maxDirSize, maxFileSize)]}

\* the index in the name of the file remove() is called on
OldIndex(logIndex, kept) == logIndex - kept

\* fwrite(dataIn, sizeof(dataIn), 1, f): the first sizeof(void *) bytes at
\* dataIn, whatever `size` is; past the caller's `size` bytes they are
\* whatever follows the buffer in memory
DataBytes(size, byte) == [k \in 1..PtrSize |-> IF k <= size THEN byte ELSE Indet]

\* for (; size < moduleLogSize; size += sizeof(0)) fwrite(dataIn, 1, 1, 0):
\* entered at all, the loop writes to the stream NULL
PaddingWritesToNull(size, moduleLogSize) == size < moduleLogSize

\* the bytes one completed call appends
Frame(size, byte) == FBEGIN \o DataBytes(size, byte) \o FEND

\* The outcomes of dlgr_LogData(moduleName, size, dataIn) in state st, the
\* caller's buffer holding `size` bytes `byte`.
LogOutcomes(st, moduleName, size, byte) ==
    LET mod_idx == Lookup(st, moduleName)
        slot == st.dlgr_settings[mod_idx]
        logDir == LogDir(st)
        modDir == ModDir(st, moduleName)
        killed == [st EXCEPT !.proc = "killed"]
    IN
    IF ~IsDir(st.disk, logDir)
    THEN {Outcome(st, [Ret0 EXCEPT !.rc = ERR_CHDIR_FAIL])}
    ELSE IF ~IsDir(st.disk, modDir)
    THEN {Outcome([st EXCEPT !.cwd = logDir],
                  [Ret0 EXCEPT !.rc = ERR_CHDIR_FAIL])}
    ELSE UNION {
      IF PayloadRejected(size, moduleLogSize)
      THEN {Outcome([st EXCEPT !.cwd = modDir],
                    [Ret0 EXCEPT !.rc = ERR_MAXLOGSIZE_EXCEEDED])}
      ELSE UNION {
        LET \* fopen(dataFileName, "ab") creates the file when it is missing
            d1 == IF HasDat(st.disk, modDir, logIndex) THEN st.disk
                  ELSE WriteDat(st.disk, modDir, logIndex, <<>>)
            fileSize == DatSize(d1, modDir, logIndex)
            newIndex == logIndex + 1
            frame == Frame(size, byte)
            opened == [Ret0 EXCEPT !.idx = logIndex, !.size = fileSize,
                                   !.mfs = maxFileSize]
        IN
        IF ~NeedsRotation(fileSize, maxFileSize)
        THEN IF PaddingWritesToNull(size, moduleLogSize)
             THEN {Outcome([killed EXCEPT !.cwd = modDir, !.disk = d1],
                           [opened EXCEPT !.rc = KILLED])}
             ELSE {Outcome([st EXCEPT !.disk =
                              WriteDat(d1, modDir, logIndex,
                                       d1[modDir].dat[logIndex] \o frame)],
                           [opened EXCEPT !.rc = OK, !.wrote = frame])}
        ELSE UNION {
          LET \* dlgr_settings[mod_idx].logIndex++, index.inf rewritten, then
              \* the new file opened "wb"
              s3 == SetField(slot, "logIndex", newIndex)
              d2 == WriteDat(WriteTxt(d1, modDir, "index.inf",
                                      FmtInt(newIndex) \o <<"\n">>),
                             modDir, newIndex, <<>>)
              inside == [st EXCEPT !.cwd = modDir, !.disk = d2,
                                   !.dlgr_settings[mod_idx] = s3]
              rotated == [opened EXCEPT !.rot = TRUE, !.idx = newIndex]
          IN
          { LET old == OldIndex(newIndex, kept.n)
                d3 == RemoveDat(d2, modDir, old)
                evicted == [rotated EXCEPT !.old = old, !.removed = TRUE]
            IN
            IF kept.trap
            THEN Outcome([inside EXCEPT !.proc = "killed"],
                         [rotated EXCEPT !.rc = KILLED])
            ELSE IF ~HasDat(d2, modDir, old)
            THEN Outcome(inside,
                         [rotated EXCEPT !.rc = ERR_DATA_REMOVE, !.old = old])
            ELSE IF PaddingWritesToNull(size, moduleLogSize)
            THEN Outcome([inside EXCEPT !.disk = d3, !.proc = "killed"],
                         [evicted EXCEPT !.rc = KILLED])
            ELSE \* the frame goes to the file opened "wb"; when remove()
                 \* unlinked that very file, it is gone once it is closed
                 Outcome([inside EXCEPT
                             !.cwd = st.cwd,
                             !.disk = IF old = newIndex THEN d3
                                      ELSE WriteDat(d3, modDir, newIndex, frame)],
                         [evicted EXCEPT !.rc = OK, !.wrote = frame])
            : kept \in FilesKept(maxDirSize, maxFileSize) }
          : maxDirSize \in FieldValues(slot, "maxDirSize") }
        : logIndex \in FieldValues(slot, "logIndex"),
          maxFileSize \in FieldValues(slot, "maxFileSize") }
      : moduleLogSize \in FieldValues(slot, "moduleLogSize") }

\* the bounds of the model on one outcome: no index beyond MaxIndex is in
\* use and no file holds more than MaxFrames frames
WithinBounds(o) ==
    /\ \A i \in Slots : o.st.dlgr_settings[i].logIndex <= MaxIndex
    /\ \A p \in DOMAIN o.st.disk : \A n \in DOMAIN o.st.disk[p].dat :
          /\ n \in 0..MaxIndex
          /\ Len(o.st.disk[p].dat[n])
                <= MaxFrames * (Len(FBEGIN) + PtrSize + Len(FEND))

dlgr_LogData(moduleName, size, byte) ==
    /\ proc = "running"
    /\ \E o \in LogOutcomes(State, moduleName, size, byte) :
          WithinBounds(o) /\ Apply(o)

(***************************************************************************)
(* dlgr_EditSettings                                                       *)
(***************************************************************************)
\* a variant that lets a value of 0 through
ValueRejectedBelowZero(value, limit) == value > limit \/ value < 0

\* value > hard limit || value < 1
ValueRejected(value, limit) == value > limit \/ value < 1

\* the two lines written to settings.cfg after `setting` was assigned: the
\* slot's maxFileSize, then its maxDirSize
EditedText(setting, value, other) ==
    IF setting = MAX_FILE_SIZE THEN SettingsText(value, other)
    ELSE SettingsText(other, value)

EditOutcomes(st, moduleName, value, setting) ==
    LET mod_idx == Lookup(st, moduleName)
        slot == st.dlgr_settings[mod_idx]
        logDir == LogDir(st)
        modDir == ModDir(st, moduleName)
        field == IF setting = MAX_FILE_SIZE THEN "maxFileSize" ELSE "maxDirSize"
        other == IF setting = MAX_FILE_SIZE THEN "maxDirSize" ELSE "maxFileSize"
        limit == IF setting = MAX_FILE_SIZE THEN SIZE_FILE_HARDLIMIT
                 ELSE SIZE_DIR_HARDLIMIT
    IN
    IF ~IsDir(st.disk, logDir)
    THEN {Outcome(st, [Ret0 EXCEPT !.rc = ERR_CHDIR_FAIL])}
    ELSE IF ~IsDir(st.disk, modDir)
    THEN {Outcome([st EXCEPT !.cwd = logDir],
                  [Ret0 EXCEPT !.rc = ERR_CHDIR_FAIL])}
    ELSE IF setting \notin {MAX_FILE_SIZE, MAX_DIR_SIZE}
    THEN {Outcome([st EXCEPT !.cwd = modDir],
                  [Ret0 EXCEPT !.rc = ERR_DEFAULT_CASE])}
    ELSE IF ValueRejected(value, limit)
    THEN {Outcome([st EXCEPT !.cwd = modDir],
                  [Ret0 EXCEPT !.rc = ERR_SETTINGS_SET])}
    ELSE { Outcome([st EXCEPT
                      !.dlgr_settings[mod_idx] = SetField(slot, field, value),
                      !.disk = WriteTxt(st.disk, modDir, "settings.cfg",
                                        EditedText(setting, value, kept))],
                   [Ret0 EXCEPT !.rc = OK])
           : kept \in FieldValues(slot, other) }

dlgr_EditSettings(moduleName, value, setting) ==
    /\ proc = "running"
    /\ \E o \in EditOutcomes(State, moduleName, value, setting) : Apply(o)

(***************************************************************************)
(* dlgr_retrieve and dlgr_RetrieveData                                     *)
(***************************************************************************)
\* fread(buffer, 0x1, fileSize, fDataDat) != 1: fread returns the number of
\* one-byte items read, which is fileSize
ReadRejected(fileSize) == fileSize # 1

\* bufferCursor - buffer after
\*   bufferCursor = buffer + fileSize;
\*   bufferCursor -= moduleLogSize - FBEGIN_SIZE + FEND_SIZE;
CursorOffset(fileSize, moduleLogSize) ==
    fileSize - (moduleLogSize - FBEGIN_SIZE + FEND_SIZE)

\* memcpy(output, buffer, moduleLogSize + FBEGIN_SIZE + FEND_SIZE): always
\* from the start of the buffer to the start of output; past the fileSize
\* bytes read, the buffer holds what malloc left there
CopiedBytes(file, moduleLogSize) ==
    [k \in 1..(moduleLogSize + FBEGIN_SIZE + FEND_SIZE) |->
        IF k <= Len(file) THEN file[k] ELSE Indet]

\* while (buffer - bufferCursor != 0 && numReadLogs < numRequestedLogs)
\*     { memcpy(...); numReadLogs++; }
\* the cursor never moves, so the loop ends by the count alone
LogsCounted(offset, numRequestedLogs) ==
    IF offset # 0 /\ 0 < numRequestedLogs THEN numRequestedLogs ELSE 0

\* The outcomes of one dlgr_retrieve(moduleName, output, numRequestedLogs,
\* indexOffset) in state st, output holding `out`; indexOffset is read
\* nowhere in the function.  ret.rc is its return value.
RetrieveOutcomes(st, moduleName, out, numRequestedLogs, indexOffset) ==
    LET mod_idx == Lookup(st, moduleName)
        slot == st.dlgr_settings[mod_idx]
        logDir == LogDir(st)
        modDir == ModDir(st, moduleName)
        inside == [st EXCEPT !.cwd = modDir]
        ret == [Ret0 EXCEPT !.out = out]
    IN
    IF ~IsDir(st.disk, logDir)
    THEN {Outcome(st, [ret EXCEPT !.rc = ERR_CHDIR_FAIL])}
    ELSE IF ~IsDir(st.disk, modDir)
    THEN {Outcome([st EXCEPT !.cwd = logDir], [ret EXCEPT !.rc = ERR_CHDIR_FAIL])}
    ELSE { LET file == IF HasDat(st.disk, modDir, logIndex)
                       THEN st.disk[modDir].dat[logIndex] ELSE <<>>
               counted == LogsCounted(CursorOffset(Len(file), moduleLogSize),
                                      numRequestedLogs)
               opened == [ret EXCEPT !.idx = logIndex, !.size = Len(file)]
           IN
           IF ~HasDat(st.disk, modDir, logIndex)
           THEN Outcome(inside, [opened EXCEPT !.rc = ERR_DATA_OPEN])
           ELSE IF ReadRejected(Len(file))
           THEN Outcome(inside, [opened EXCEPT !.rc = ERR_DATA_READ])
           ELSE Outcome(st, [opened EXCEPT
                               !.rc = counted,
                               !.out = IF counted > 0
                                       THEN CopiedBytes(file, moduleLogSize)
                                       ELSE out])
           : moduleLogSize \in FieldValues(slot, "moduleLogSize"),
             logIndex \in FieldValues(slot, "logIndex") }

\* The loop of dlgr_RetrieveData from numReadLogs logs read and indexOffset
\* files passed: while (numReadLogs < numRequestedLogs) call dlgr_retrieve for
\* the logs still missing, return its error if it has one, else add what it
\* returned.  A call that returns 0 changed nothing, so the call after it is
\* the same call again: the loop never ends and the process hangs in it.
RECURSIVE RetrieveLoop(_, _, _, _, _, _)
RetrieveLoop(st, moduleName, out, numRequestedLogs, numReadLogs, indexOffset) ==
    IF ~(numReadLogs < numRequestedLogs)
    THEN {Outcome(st, [Ret0 EXCEPT
                         !.out = out,
                         !.rc = IF numReadLogs # numRequestedLogs
                                THEN ERR_READ_NUM ELSE OK])}
    ELSE UNION {
      IF r.ret.rc < 0 THEN {r}
      ELSE IF r.ret.rc = 0
      THEN {Outcome([r.st EXCEPT !.proc = "hung"], [r.ret EXCEPT !.rc = KILLED])}
      ELSE RetrieveLoop(r.st, moduleName, r.ret.out, numRequestedLogs,
                        numReadLogs + r.ret.rc, indexOffset + 1)
      : r \in RetrieveOutcomes(st, moduleName, out,
                               numRequestedLogs - numReadLogs, indexOffset) }

\* dlgr_RetrieveData(moduleName, output, numRequestedLogs), output empty
RetrieveDataOutcomes(st, moduleName, numRequestedLogs) ==
    RetrieveLoop(st, moduleName, <<>>, numRequestedLogs, 0, 0)

dlgr_RetrieveData(moduleName, numRequestedLogs) ==
    /\ proc = "running"
    /\ \E o \in RetrieveDataOutcomes(State, moduleName, numRequestedLogs) :
          Apply(o)

(***************************************************************************)
(* dlgr_QueryMemorySize: reads the slot, changes nothing                   *)
(***************************************************************************)
\* the largest value of an int, the type of the function, of its parameter
\* and of moduleLogSize
INT_MAX == 2147483647

\* x + y in an int: past INT_MAX or below -INT_MAX - 1 the sum comes back
\* from the other end of the range
AddWrap(x, y) ==
    IF x > 0 /\ y > 0 /\ x > INT_MAX - y
    THEN ((x - INT_MAX) - 1) + ((y - INT_MAX) - 1)
    ELSE IF x < 0 /\ y < 0 /\ x < (-INT_MAX - 1) - y
    THEN ((x + INT_MAX) + 1) + ((y + INT_MAX) + 1)
    ELSE x + y

\* -x in an int
NegWrap(x) == IF x = -INT_MAX - 1 THEN x ELSE -x

\* x + x in an int
Twice(x) == AddWrap(x, x)

\* a times b in an int, a >= 0, by the binary digits of a
RECURSIVE Times(_, _)
Times(a, b) ==
    IF a = 0 THEN 0
    ELSE IF a % 2 = 0 THEN Twice(Times(a \div 2, b))
    ELSE AddWrap(Twice(Times(a \div 2, b)), b)

\* |x| of an int other than -INT_MAX - 1
Magnitude(x) == IF x < 0 THEN -x ELSE x

\* a * b in an int: signed overflow is undefined, and the multiplication the
\* builds of this code emit keeps the low 32 bits of the product.  The
\* product is taken digit by digit of the factor of smaller magnitude.
MulWrap(a, b) ==
    LET small == IF Magnitude(a) <= Magnitude(b) THEN a ELSE b
        large == IF Magnitude(a) <= Magnitude(b) THEN b ELSE a
    IN IF small < 0 THEN NegWrap(Times(-small, large))
       ELSE Times(small, large)

\* return numRequestedLogs * (moduleLogSize + FBEGIN_SIZE + FEND_SIZE);
MemorySize(numRequestedLogs, moduleLogSize) ==
    MulWrap(numRequestedLogs,
            AddWrap(AddWrap(moduleLogSize, FBEGIN_SIZE), FEND_SIZE))

\* the values dlgr_QueryMemorySize(moduleName, numRequestedLogs) can return
QueryMemorySize(st, moduleName, numRequestedLogs) ==
    { MemorySize(numRequestedLogs, moduleLogSize) :
        moduleLogSize \in
            FieldValues(st.dlgr_settings[Lookup(st, moduleName)],
                        "moduleLogSize") }

(***************************************************************************)
(* Specifications.                                                         *)
(***************************************************************************)
\* the calls a set of callers can make
Calls(callers) ==
    \/ \E m \in callers, n \in RecordSizes : dlgr_init(m, n)
    \/ \E m \in callers, n \in PayloadSizes, b \in PayloadBytes :
          dlgr_LogData(m, n, b)
    \/ \E m \in callers, n \in RequestCounts : dlgr_RetrieveData(m, n)
    \/ \E m \in callers, v \in EditValues, f \in EditSettingIds :
          dlgr_EditSettings(m, v, f)

Next ==
    \/ Calls(OneModule)
    \/ Restart

\* one module, one caller
Spec == Init /\ [][Next]_vars

(***************************************************************************)
(* Storage damage: something other than the program rewrites one log file  *)
(* of a module (a flipped first byte, or a file cut down to one byte that   *)
(* is not the 'F' of FBEGIN).  At most one file is damaged at a time.       *)
(***************************************************************************)
Flipped == "X"

Damaged(file) == \E k \in 1..Len(file) : file[k] = Flipped

DamagedContents(file) ==
    {<<Flipped>>} \cup
    (IF file = <<>> THEN {} ELSE {[file EXCEPT ![1] = Flipped]})

Damage ==
    \E path \in DOMAIN disk :
       /\ \A n \in DOMAIN disk[path].dat : ~Damaged(disk[path].dat[n])
       /\ \E n \in DOMAIN disk[path].dat :
          \E c \in DamagedContents(disk[path].dat[n]) :
             disk' = WriteDat(disk, path, n, c)
       /\ UNCHANGED <<cwd, dlgr_idx, dlgr_modname, dlgr_settings, proc, run>>

NextDamaged ==
    \/ Next
    \/ Damage

\* one module, one caller, and a storage that can damage a file
SpecDamaged == Init /\ [][NextDamaged]_vars

(***************************************************************************)
(* The process dies inside dlgr_LogData (a signal, a power cut): the files *)
(* stay as the calls made so far left them.                                *)
(***************************************************************************)
\* The states dlgr_LogData(moduleName, size, dataIn) can be cut in: after
\* the chdir calls, after fopen "ab", after fopen(index.inf, "w") has
\* truncated the file, after index.inf was written and closed, after fopen
\* "wb" of the new file, after remove(), after the frame was written.  The
\* memory is that of the caller's last return.
LogCrashOutcomes(st, moduleName, size, byte) ==
    LET mod_idx == Lookup(st, moduleName)
        slot == st.dlgr_settings[mod_idx]
        modDir == ModDir(st, moduleName)
        cut(d) == Outcome([st EXCEPT !.proc = "killed", !.cwd = modDir,
                                     !.disk = d],
                          [Ret0 EXCEPT !.rc = KILLED])
    IN
    IF ~IsDir(st.disk, LogDir(st)) \/ ~IsDir(st.disk, modDir)
    THEN {}
    ELSE UNION {
      IF PayloadRejected(size, moduleLogSize)
      THEN {cut(st.disk)}
      ELSE UNION {
        LET d1 == IF HasDat(st.disk, modDir, logIndex) THEN st.disk
                  ELSE WriteDat(st.disk, modDir, logIndex, <<>>)
            fileSize == DatSize(d1, modDir, logIndex)
            newIndex == logIndex + 1
            frame == Frame(size, byte)
            truncated == WriteTxt(d1, modDir, "index.inf", <<>>)
            written == WriteTxt(d1, modDir, "index.inf",
                                FmtInt(newIndex) \o <<"\n">>)
            d2 == WriteDat(written, modDir, newIndex, <<>>)
        IN
        IF ~NeedsRotation(fileSize, maxFileSize)
        THEN {cut(st.disk), cut(d1)} \cup
             (IF PaddingWritesToNull(size, moduleLogSize) THEN {}
              ELSE {cut(WriteDat(d1, modDir, logIndex,
                                 d1[modDir].dat[logIndex] \o frame))})
        ELSE {cut(st.disk), cut(d1), cut(truncated), cut(written), cut(d2)} \cup
             UNION {
               LET old == OldIndex(newIndex, kept.n)
                   d3 == RemoveDat(d2, modDir, old)
               IN
               IF kept.trap \/ ~HasDat(d2, modDir, old) THEN {}
               ELSE {cut(d3)} \cup
                    (IF PaddingWritesToNull(size, moduleLogSize)
                        \/ old = newIndex
                     THEN {}
                     ELSE {cut(WriteDat(d3, modDir, newIndex, frame))})
               : kept \in UNION {FilesKept(maxDirSize, maxFileSize) :
                                   maxDirSize \in FieldValues(slot, "maxDirSize")} }
        : logIndex \in FieldValues(slot, "logIndex"),
          maxFileSize \in FieldValues(slot, "maxFileSize") }
      : moduleLogSize \in FieldValues(slot, "moduleLogSize") }

CrashInLogData(moduleName, size, byte) ==
    /\ proc = "running"
    /\ \E o \in LogCrashOutcomes(State, moduleName, size, byte) :
          WithinBounds(o) /\ Apply(o)

NextCrash ==
    \/ Next
    \/ \E m \in OneModule, n \in PayloadSizes, b \in PayloadBytes :
          CrashInLogData(m, n, b)

\* one module, one caller, and a process that can die inside dlgr_LogData
SpecCrash == Init /\ [][NextCrash]_vars

(***************************************************************************)
(* main() and the threads it creates.  The functions of the datalogger run *)
(* in the threads one system call or one access to the shared memory at a  *)
(* time; the threads share dlgr_settings, the files and the working        *)
(* directory of the process, against which every file name of the          *)
(* datalogger is resolved at the time of the call that uses it.            *)
(* eps_thread calls dlgr_LogData in its loop; dlgr_RetrieveData and        *)
(* dlgr_EditSettings are the calls the other users of the interface make   *)
(* from their loops.                                                       *)
(***************************************************************************)
\* what the threads call the datalogger with: the size the modules register
\* with, the payload sizes a thread logs, the (value, setting) pairs it
\* edits and the number of logs it retrieves
ThreadRecordSizes == {8}
ThreadPayloadSizes == {8}
ThreadEdits == {<<20, MAX_FILE_SIZE>>, <<20, MAX_DIR_SIZE>>}
ThreadCount == 1

\* the module each thread works for: one module each, or the same module
TwoModules == [t \in Workers |-> IF t = 1 THEN Eps ELSE Acs]
SameModule == [t \in Workers |-> Eps]

Thr(t) == run.thr[t]

\* thread th is inside a function of the datalogger
InCall(th) == th.pc \notin {"loop", "body", "ret", "exited"}

\* while (!done)
LoopContinues(d) == d = 0

\* a variant of the join loop that stops one thread short
JoinedAllButLast(joined) == joined >= num_systems - 1

\* for (i = 0; i < num_systems; i++) pthread_join(thread[i], &status) is over
JoinedAll(joined) == joined >= num_systems

\* the directory chdir("..") leads to
Parent(path) == IF path = <<>> THEN path ELSE SubSeq(path, 1, Len(path) - 1)

\* thread t goes on as th, memory and files becoming st
Step(t, st, th) ==
    /\ WithinBounds([st |-> st])
    /\ Becomes(st)
    /\ run' = [run EXCEPT !.thr[t] = th]

\* the function returns rc: its locals are gone
Returned(th, rc) ==
    [th EXCEPT !.pc = "ret", !.rc = rc, !.mod_idx = 0, !.moduleLogSize = 0,
               !.file = 0, !.fdir = Home, !.newIndex = 0, !.numReadLogs = 0]

\* the threads exist and the process runs
Running == proc = "running" /\ run.main = "join"

\* the test of while (!done): into the loop body, or on to pthread_exit
Loop(t) ==
    /\ Running
    /\ Thr(t).pc = "loop"
    /\ LoopContinues(run.done) => Thr(t).iterations < MaxIterations
    /\ run' = [run EXCEPT !.thr[t] =
                 IF LoopContinues(run.done)
                 THEN [@ EXCEPT !.pc = "body", !.iterations = @ + 1,
                                !.lateIter = @ + run.done]
                 ELSE [@ EXCEPT !.pc = "exited"]]
    /\ UNCHANGED <<cwd, disk, dlgr_idx, dlgr_modname, dlgr_settings, proc>>

\* the working directory a call of thread t would start from were no other
\* thread inside a call
Base(t) ==
    IF \E u \in Workers \ {t} : InCall(Thr(u))
    THEN Thr(CHOOSE u \in Workers \ {t} : InCall(Thr(u))).base
    ELSE cwd

\* the content of a directory, if it exists
DirAt(d, path) == IF IsDir(d, path) THEN {d[path]} ELSE {}

\* what the calls that return report and leave in the directory of module m
Alone(outcomes, base, m) ==
    { [rc |-> o.ret.rc,
       dir |-> DirAt(o.st.disk, Append(Append(base, "log"), Str(m)))] :
        o \in {x \in outcomes : x.st.proc = "running"} }

\* A thread enters a function of the datalogger: the lookup loop, and for
\* dlgr_LogData and dlgr_retrieve the read of moduleLogSize.
Begin(t, m, op, arg, setting, byte, alone) ==
    /\ Running
    /\ Thr(t).pc = "body"
    /\ \E size \in (IF op = "edit" THEN {0}
                    ELSE FieldValues(dlgr_settings[Lookup(State, m)],
                                     "moduleLogSize")) :
          run' = [run EXCEPT !.thr[t] =
                    [@ EXCEPT !.pc = "chdir_log", !.op = op, !.mod = m,
                              !.arg = arg, !.setting = setting, !.byte = byte,
                              !.mod_idx = Lookup(State, m),
                              !.moduleLogSize = size,
                              !.lateCall = @ + run.done,
                              !.base = Base(t), !.want = alone]]
    /\ UNCHANGED <<cwd, disk, dlgr_idx, dlgr_modname, dlgr_settings, proc>>

LogDataBegin(t, m, size, byte) ==
    Begin(t, m, "log", size, 0, byte,
          Alone(LogOutcomes([State EXCEPT !.cwd = Base(t)], m, size, byte),
                Base(t), m))

RetrieveDataBegin(t, m) ==
    Begin(t, m, "get", ThreadCount, 0, "",
          Alone(RetrieveDataOutcomes([State EXCEPT !.cwd = Base(t)], m,
                                     ThreadCount),
                Base(t), m))

EditSettingsBegin(t, m, value, setting) ==
    Begin(t, m, "edit", value, setting, "",
          Alone(EditOutcomes([State EXCEPT !.cwd = Base(t)], m, value, setting),
                Base(t), m))

\* if (chdir("log") < 0) return ERR_CHDIR_FAIL
ChdirLog(t) ==
    /\ Running
    /\ Thr(t).pc = "chdir_log"
    /\ LET to == Append(cwd, "log") IN
       IF IsDir(disk, to)
       THEN Step(t, [State EXCEPT !.cwd = to], [Thr(t) EXCEPT !.pc = "chdir_mod"])
       ELSE Step(t, State, Returned(Thr(t), ERR_CHDIR_FAIL))

\* if (chdir(moduleName) < 0) return ERR_CHDIR_FAIL
ChdirModule(t) ==
    /\ Running
    /\ Thr(t).pc = "chdir_mod"
    /\ LET to == Append(cwd, Str(Thr(t).mod))
           first == IF Thr(t).op = "log" THEN "log_open"
                    ELSE IF Thr(t).op = "get" THEN "get_open" ELSE "edit_set"
       IN
       IF IsDir(disk, to)
       THEN Step(t, [State EXCEPT !.cwd = to], [Thr(t) EXCEPT !.pc = first])
       ELSE Step(t, State, Returned(Thr(t), ERR_CHDIR_FAIL))

\* dlgr_LogData: the size check, the two file names, fopen(dataFileName,
\* "ab"), ftell and the comparison with maxFileSize
LogOpen(t) ==
    /\ Running
    /\ Thr(t).pc = "log_open"
    /\ LET th == Thr(t)
           slot == dlgr_settings[th.mod_idx]
       IN
       IF PayloadRejected(th.arg, th.moduleLogSize)
       THEN Step(t, State, Returned(th, ERR_MAXLOGSIZE_EXCEEDED))
       ELSE \E logIndex \in FieldValues(slot, "logIndex"),
               maxFileSize \in FieldValues(slot, "maxFileSize") :
              LET d1 == IF HasDat(disk, cwd, logIndex) THEN disk
                        ELSE WriteDat(disk, cwd, logIndex, <<>>)
                  opened == [th EXCEPT !.file = logIndex, !.fdir = cwd,
                                       !.newIndex = logIndex + 1]
              IN
              Step(t, [State EXCEPT !.disk = d1],
                   IF NeedsRotation(DatSize(d1, cwd, logIndex), maxFileSize)
                   THEN [opened EXCEPT !.pc = "log_index"]
                   ELSE [opened EXCEPT !.pc = "log_write"])

\* fopen(indexFileName, "w"); dlgr_settings[mod_idx].logIndex++; fprintf;
\* fclose
LogIndex(t) ==
    /\ Running
    /\ Thr(t).pc = "log_index"
    /\ LET th == Thr(t)
           slot == dlgr_settings[th.mod_idx]
       IN
       \E logIndex \in FieldValues(slot, "logIndex") :
          Step(t, [State EXCEPT
                      !.dlgr_settings[th.mod_idx] =
                          SetField(slot, "logIndex", logIndex + 1),
                      !.disk = WriteTxt(disk, cwd, "index.inf",
                                        FmtInt(logIndex + 1) \o <<"\n">>)],
               [th EXCEPT !.pc = "log_create"])

\* fDataDat = fopen(dataFileNewName, "wb")
LogCreate(t) ==
    /\ Running
    /\ Thr(t).pc = "log_create"
    /\ LET th == Thr(t) IN
       Step(t, [State EXCEPT !.disk = WriteDat(disk, cwd, th.newIndex, <<>>)],
            [th EXCEPT !.pc = "log_remove", !.file = th.newIndex, !.fdir = cwd])

\* remove("<logIndex - maxDirSize / maxFileSize>.dat"), ERR_DATA_REMOVE when
\* it fails
LogRemove(t) ==
    /\ Running
    /\ Thr(t).pc = "log_remove"
    /\ LET th == Thr(t)
           slot == dlgr_settings[th.mod_idx]
       IN
       \E logIndex \in FieldValues(slot, "logIndex"),
          maxFileSize \in FieldValues(slot, "maxFileSize"),
          maxDirSize \in FieldValues(slot, "maxDirSize") :
         \E kept \in FilesKept(maxDirSize, maxFileSize) :
            LET old == OldIndex(logIndex, kept.n) IN
            IF kept.trap
            THEN Step(t, [State EXCEPT !.proc = "killed"], th)
            ELSE IF ~HasDat(disk, cwd, old)
            THEN Step(t, State, Returned(th, ERR_DATA_REMOVE))
            ELSE Step(t, [State EXCEPT !.disk = RemoveDat(disk, cwd, old)],
                      [th EXCEPT !.pc = "log_write"])

\* the fwrite calls and fclose: the frame goes to the file the stream is open
\* on, and is gone with it when that file was unlinked; the padding loop
\* writes to the stream NULL
LogWrite(t) ==
    /\ Running
    /\ Thr(t).pc = "log_write"
    /\ LET th == Thr(t) IN
       IF PaddingWritesToNull(th.arg, th.moduleLogSize)
       THEN Step(t, [State EXCEPT !.proc = "killed"], th)
       ELSE Step(t, [State EXCEPT !.disk =
                       IF IsDir(disk, th.fdir) /\ HasDat(disk, th.fdir, th.file)
                       THEN WriteDat(disk, th.fdir, th.file,
                                     disk[th.fdir].dat[th.file]
                                        \o Frame(th.arg, th.byte))
                       ELSE disk],
                 [th EXCEPT !.pc = "up1"])

\* dlgr_retrieve: fopen("<logIndex>.dat", "rb"), ERR_DATA_OPEN when it fails
RetrieveOpen(t) ==
    /\ Running
    /\ Thr(t).pc = "get_open"
    /\ LET th == Thr(t)
           slot == dlgr_settings[th.mod_idx]
       IN
       \E logIndex \in FieldValues(slot, "logIndex") :
          IF ~HasDat(disk, cwd, logIndex)
          THEN Step(t, State, Returned(th, ERR_DATA_OPEN))
          ELSE Step(t, State, [th EXCEPT !.pc = "get_read", !.file = logIndex,
                                         !.fdir = cwd])

\* dlgr_retrieve: fseek, ftell, malloc, fread, the cursor and the copy loop
RetrieveRead(t) ==
    /\ Running
    /\ Thr(t).pc = "get_read"
    /\ LET th == Thr(t)
           slot == dlgr_settings[th.mod_idx]
           file == IF IsDir(disk, th.fdir) /\ HasDat(disk, th.fdir, th.file)
                   THEN disk[th.fdir].dat[th.file] ELSE <<>>
       IN
       IF ReadRejected(Len(file))
       THEN Step(t, State, Returned(th, ERR_DATA_READ))
       ELSE \E moduleLogSize \in FieldValues(slot, "moduleLogSize") :
              Step(t, State,
                   [th EXCEPT !.pc = "up1",
                              !.numReadLogs =
                                  LogsCounted(CursorOffset(Len(file),
                                                           moduleLogSize),
                                              th.arg)])

\* dlgr_EditSettings: the switch, fopen("settings.cfg", "w"), the two
\* fprintf and fclose
EditSet(t) ==
    /\ Running
    /\ Thr(t).pc = "edit_set"
    /\ LET th == Thr(t)
           slot == dlgr_settings[th.mod_idx]
           field == IF th.setting = MAX_FILE_SIZE THEN "maxFileSize"
                    ELSE "maxDirSize"
           other == IF th.setting = MAX_FILE_SIZE THEN "maxDirSize"
                    ELSE "maxFileSize"
           limit == IF th.setting = MAX_FILE_SIZE THEN SIZE_FILE_HARDLIMIT
                    ELSE SIZE_DIR_HARDLIMIT
       IN
       IF th.setting \notin {MAX_FILE_SIZE, MAX_DIR_SIZE}
       THEN Step(t, State, Returned(th, ERR_DEFAULT_CASE))
       ELSE IF ValueRejected(th.arg, limit)
       THEN Step(t, State, Returned(th, ERR_SETTINGS_SET))
       ELSE \E kept \in FieldValues(slot, other) :
              Step(t, [State EXCEPT
                         !.dlgr_settings[th.mod_idx] =
                             SetField(slot, field, th.arg),
                         !.disk = WriteTxt(disk, cwd, "settings.cfg",
                                           EditedText(th.setting, th.arg, kept))],
                   [th EXCEPT !.pc = "up1"])

\* the first chdir("..")
ChdirUp(t) ==
    /\ Running
    /\ Thr(t).pc = "up1"
    /\ Step(t, [State EXCEPT !.cwd = Parent(cwd)], [Thr(t) EXCEPT !.pc = "up2"])

\* the second chdir("..") and the return: 1 from dlgr_LogData and
\* dlgr_EditSettings; dlgr_retrieve returns numReadLogs to the loop of
\* dlgr_RetrieveData, which calls it again when that is 0
ChdirHome(t) ==
    /\ Running
    /\ Thr(t).pc = "up2"
    /\ LET th == Thr(t) IN
       Step(t, [State EXCEPT !.cwd = Parent(cwd)],
            IF th.op = "get" /\ th.numReadLogs = 0
            THEN [th EXCEPT !.pc = "chdir_log"]
            ELSE Returned(th, OK))

\* sleep(EPS_LOOP_TIMER), and back to the test of the loop
Sleep(t) ==
    /\ Running
    /\ Thr(t).pc = "ret"
    /\ run' = [run EXCEPT !.thr[t] =
                 [IdleThread EXCEPT !.iterations = Thr(t).iterations,
                                    !.lateIter = Thr(t).lateIter,
                                    !.lateCall = Thr(t).lateCall]]
    /\ UNCHANGED <<cwd, disk, dlgr_idx, dlgr_modname, dlgr_settings, proc>>

\* main() before the threads exist: the modules are registered
Register(m, n) ==
    /\ run.main = "init"
    /\ \A i \in Slots : dlgr_modname[i] # m
    /\ dlgr_init(m, n)

\* the pthread_create loop, once the modules of the threads are registered
CreateThreads(mods) ==
    /\ proc = "running"
    /\ run.main = "init"
    /\ \A t \in Workers : Lookup(State, mods[t]) < dlgr_idx
    /\ run' = [run EXCEPT !.main = "join"]
    /\ UNCHANGED <<cwd, disk, dlgr_idx, dlgr_modname, dlgr_settings, proc>>

\* pthread_join(thread[i], &status) returns once thread i has exited
Join ==
    /\ Running
    /\ ~JoinedAll(run.joined)
    /\ Thr(run.joined + 1).pc = "exited"
    /\ run' = [run EXCEPT !.joined = @ + 1]
    /\ UNCHANGED <<cwd, disk, dlgr_idx, dlgr_modname, dlgr_settings, proc>>

\* for (i = 0; i < num_destroy; i++) module_destroy[i]()
Destroy ==
    /\ Running
    /\ JoinedAll(run.joined)
    /\ run' = [run EXCEPT !.main = "destroyed"]
    /\ UNCHANGED <<cwd, disk, dlgr_idx, dlgr_modname, dlgr_settings, proc>>

\* free(dlgr_settings); free(dlgr_modname); return 0
Free ==
    /\ proc = "running"
    /\ run.main = "destroyed"
    /\ run' = [run EXCEPT !.main = "freed"]
    /\ UNCHANGED <<cwd, disk, dlgr_idx, dlgr_modname, dlgr_settings, proc>>

\* SIGINT arrives: done = 1
catch_sigint ==
    /\ proc = "running"
    /\ run.main \in {"init", "join"}
    /\ run.done = 0
    /\ run' = [run EXCEPT !.done = 1]
    /\ UNCHANGED <<cwd, disk, dlgr_idx, dlgr_modname, dlgr_settings, proc>>

\* the steps of main(), of the signal handler and of the threads, the
\* thread t working for module mods[t]
ThreadNext(mods) ==
    \/ \E t \in Workers, n \in ThreadRecordSizes : Register(mods[t], n)
    \/ CreateThreads(mods)
    \/ Join
    \/ Destroy
    \/ Free
    \/ catch_sigint
    \/ \E t \in Workers : Loop(t)
    \/ \E t \in Workers, n \in ThreadPayloadSizes, b \in PayloadBytes :
          LogDataBegin(t, mods[t], n, b)
    \/ \E t \in Workers : RetrieveDataBegin(t, mods[t])
    \/ \E t \in Workers, e \in ThreadEdits :
          EditSettingsBegin(t, mods[t], e[1], e[2])
    \/ \E t \in Workers : ChdirLog(t)
    \/ \E t \in Workers : ChdirModule(t)
    \/ \E t \in Workers : LogOpen(t)
    \/ \E t \in Workers : LogIndex(t)
    \/ \E t \in Workers : LogCreate(t)
    \/ \E t \in Workers : LogRemove(t)
    \/ \E t \in Workers : LogWrite(t)
    \/ \E t \in Workers : RetrieveOpen(t)
    \/ \E t \in Workers : RetrieveRead(t)
    \/ \E t \in Workers : EditSet(t)
    \/ \E t \in Workers : ChdirUp(t)
    \/ \E t \in Workers : ChdirHome(t)
    \/ \E t \in Workers : Sleep(t)

NextThreads == ThreadNext(TwoModules)

\* two threads, each working for its own module
SpecThreads == Init /\ [][NextThreads]_vars

NextSameModule == ThreadNext(SameModule)

\* two threads working for the same module
SpecSameModule == Init /\ [][NextSameModule]_vars

(***************************************************************************)
(* One module whose caller keeps the directory budget near the file size:  *)
(* the values it passes to dlgr_EditSettings let maxDirSize be below,      *)
(* equal to or above maxFileSize while a file of two frames reaches         *)
(* maxFileSize.                                                            *)
(***************************************************************************)
\* values passed to dlgr_EditSettings by that caller
TightValues == {10, 20, 40}

TightCalls ==
    \/ \E n \in ThreadRecordSizes : dlgr_init(Eps, n)
    \/ \E n \in PayloadSizes, b \in PayloadBytes : dlgr_LogData(Eps, n, b)
    \/ \E v \in TightValues, f \in {MAX_FILE_SIZE, MAX_DIR_SIZE} :
          dlgr_EditSettings(Eps, v, f)

NextTight ==
    \/ TightCalls
    \/ Restart

SpecTight == Init /\ [][NextTight]_vars

(***************************************************************************)
(* Vocabulary of the properties.                                           *)
(***************************************************************************)
\* the directory of module "eps" seen from home
EpsDir == <<"log", "eps">>

\* the program runs, its working directory is home and `name` was registered
\* in this run, in a slot the lookup reaches
Ready(name) ==
    /\ proc = "running"
    /\ cwd = Home
    /\ Lookup(State, name) < num_systems
    /\ Lookup(State, name) < dlgr_idx

\* the slot the lookup finds for `name`
SlotOf(name) == dlgr_settings[Lookup(State, name)]

\* maxFileSize and maxDirSize of the slot hold values that were assigned
SettingsCached(name) == {"maxFileSize", "maxDirSize"} \subseteq SlotOf(name).def

\* the .dat files of a directory content
DatFiles(d, path) == DOMAIN d[path].dat

\* the bytes of a file, none when it does not exist
DatBytes(d, path, n) == IF HasDat(d, path, n) THEN d[path].dat[n] ELSE <<>>

\* the length of what one completed dlgr_LogData appends
WrittenFrameLen == Len(FBEGIN) + PtrSize + Len(FEND)

\* the frame the specification describes for a payload of len bytes `byte`
\* in a module of record size recordSize
SpecFrame(len, byte, recordSize) ==
    FBEGIN \o [k \in 1..recordSize |-> IF k <= len THEN byte ELSE "00"] \o FEND

\* files n, n+1, ..., m of a directory, one after the other
RECURSIVE Concatenated(_, _, _, _)
Concatenated(d, path, n, m) ==
    IF n > m THEN <<>>
    ELSE DatBytes(d, path, n) \o Concatenated(d, path, n + 1, m)

\* the last k bytes of a sequence
LastBytes(s, k) == SubSeq(s, Len(s) - k + 1, Len(s))

Budget(name) == CDiv(SlotOf(name).maxDirSize, SlotOf(name).maxFileSize)

\* the settings of `name` were assigned and give a budget of one file at least
Budgeted(name) ==
    /\ Ready(name) /\ SettingsCached(name)
    /\ SlotOf(name).maxFileSize >= 1
    /\ Budget(name) >= 1

\* payload lengths dlgr_LogData takes without rejecting them and without
\* padding: those equal to the record size of the slot
FullRecords(name) ==
    {n \in PayloadSizes : n = SlotOf(name).moduleLogSize}

\* C2: after any dlgr_LogData that returns success, the number of .dat files
\* of the module is at most floor(maxDirSize / maxFileSize) of its settings.
C2_FileCountWithinBudget ==
    Budgeted(Eps) =>
      \A n \in PayloadSizes, b \in PayloadBytes :
        \A o \in LogOutcomes(State, Eps, n, b) :
          o.ret.rc = OK =>
            Cardinality(DatFiles(o.st.disk, EpsDir)) <= Budget(Eps)

\* C3: a dlgr_LogData that rotates deletes exactly the file of index
\* (new index - budget), the oldest one, when the rotation brought the number
\* of files to budget + 1, every newer file staying; when the rotation did
\* not exceed the budget it deletes nothing and the call returns success.
C3_EvictionExact ==
    Budgeted(Eps) =>
      \A n \in FullRecords(Eps), b \in PayloadBytes :
        \A o \in LogOutcomes(State, Eps, n, b) :
          o.ret.rot =>
            LET before == DatFiles(disk, EpsDir) \cup {o.ret.idx - 1}
                grown == before \cup {o.ret.idx}
                after == DatFiles(o.st.disk, EpsDir)
                oldest == o.ret.idx - Budget(Eps)
            IN
            /\ Cardinality(grown) <= Budget(Eps)
                  => (o.ret.rc = OK /\ after = grown)
            /\ Cardinality(grown) = Budget(Eps) + 1
                  => /\ after = grown \ {oldest}
                     /\ oldest \in grown
                     /\ \A f \in grown : oldest <= f

(***************************************************************************)
(* C4: the frame one append writes.                                        *)
(***************************************************************************)
\* C4: every dlgr_LogData(len bytes) with len <= record size that returns
\* success leaves the file it wrote to one frame of 10 + record size bytes
\* longer (FBEGIN, the len bytes, record size - len zero bytes, FEND), and
\* the length of every log file is a multiple of 10 + record size.
C4_FrameIsTenPlusRecordSize ==
    (Ready(Eps) /\ SettingsCached(Eps)) =>
      \A n \in PayloadSizes, b \in PayloadBytes :
        \A o \in LogOutcomes(State, Eps, n, b) :
          (n <= SlotOf(Eps).moduleLogSize /\ o.ret.rc = OK) =>
            LET recordSize == SlotOf(Eps).moduleLogSize
                held == IF o.ret.rot THEN <<>>
                        ELSE DatBytes(disk, EpsDir, o.ret.idx)
            IN
            /\ DatBytes(o.st.disk, EpsDir, o.ret.idx)
                  = held \o SpecFrame(n, b, recordSize)
            /\ \A f \in DatFiles(o.st.disk, EpsDir) :
                  Len(o.st.disk[EpsDir].dat[f]) % (10 + recordSize) = 0

(***************************************************************************)
(* C5, C6, C7: dlgr_RetrieveData on files only dlgr_LogData wrote.         *)
(***************************************************************************)
\* the bytes of all the log files of `name`, oldest file first
Logged(d, name) == Concatenated(d, <<"log", Str(name)>>, 0, MaxIndex + 1)

\* the number of frames dlgr_LogData has left in the files of `name`
FramesLogged(d, name) == Len(Logged(d, name)) \div WrittenFrameLen

\* the payload of a stored frame: what lies between FBEGIN and FEND
PayloadOf(frame) == SubSeq(frame, Len(FBEGIN) + 1, Len(frame) - Len(FEND))

\* output holds exactly the record `bytes`: the payload alone, or the frame
\* the payload is stored in
Holds(out, bytes) == out = bytes \/ out = FBEGIN \o bytes \o FEND

\* C5: a dlgr_LogData(payload) that returns success, followed at once by
\* dlgr_RetrieveData(1), yields success and exactly that payload, padded
\* with zero bytes to the record size.
C5_RoundTrip ==
    (Ready(Eps) /\ SettingsCached(Eps)) =>
      \A n \in PayloadSizes, b \in PayloadBytes :
        \A o1 \in LogOutcomes(State, Eps, n, b) :
          (n <= SlotOf(Eps).moduleLogSize /\ o1.ret.rc = OK) =>
            \A o2 \in RetrieveDataOutcomes(o1.st, Eps, 1) :
              /\ o2.ret.rc = OK
              /\ Holds(o2.ret.out,
                       PayloadOf(SpecFrame(n, b, SlotOf(Eps).moduleLogSize)))

\* C6: when the files hold count frames at least, dlgr_RetrieveData(count)
\* yields success and the count newest records, oldest of them first, taken
\* across the files in index order.
C6_LatestInAppendOrder ==
    Ready(Eps) =>
      \A count \in {c \in RequestCounts : c >= 1} :
        FramesLogged(disk, Eps) >= count =>
          \A o \in RetrieveDataOutcomes(State, Eps, count) :
            /\ o.ret.rc = OK
            /\ o.ret.out = LastBytes(Logged(disk, Eps), count * WrittenFrameLen)

\* C7: when the files hold fewer than count frames, none right after
\* dlgr_init included, dlgr_RetrieveData(count) returns ERR_READ_NUM.
C7_TooFewFramesIsReadNum ==
    Ready(Eps) =>
      \A count \in {c \in RequestCounts : c >= 1} :
        FramesLogged(disk, Eps) < count =>
          \A o \in RetrieveDataOutcomes(State, Eps, count) :
            o.ret.rc = ERR_READ_NUM

(***************************************************************************)
(* C8: dlgr_RetrieveData on a damaged file.                                *)
(***************************************************************************)
\* every stretch of frameLen bytes of out starts with FBEGIN and ends with
\* FEND
RECURSIVE FramesValid(_, _)
FramesValid(out, frameLen) ==
    IF out = <<>> THEN TRUE
    ELSE /\ Len(out) >= frameLen
         /\ SubSeq(out, 1, Len(FBEGIN)) = FBEGIN
         /\ SubSeq(out, frameLen - Len(FEND) + 1, frameLen) = FEND
         /\ FramesValid(SubSeq(out, frameLen + 1, Len(out)), frameLen)

\* C8: dlgr_RetrieveData never returns success with output whose frames do
\* not start with FBEGIN and end with FEND, and it fails when the file it
\* reads was damaged.
C8_MagicValidated ==
    Ready(Eps) =>
      \A count \in {c \in RequestCounts : c >= 1} :
        \A o \in RetrieveDataOutcomes(State, Eps, count) :
          /\ o.ret.rc = OK
                => FramesValid(o.ret.out, 10 + SlotOf(Eps).moduleLogSize)
          /\ Damaged(DatBytes(disk, EpsDir, SlotOf(Eps).logIndex))
                => o.ret.rc < 0

(***************************************************************************)
(* C9, C10: dlgr_init of a name that has a record size on record.          *)
(***************************************************************************)
\* module.inf of "eps" exists; the size it records
OnRecord == IsDir(disk, EpsDir) /\ HasTxt(disk, EpsDir, "module.inf")
RecordedSize == Atoi(disk[EpsDir].txt["module.inf"])

\* the slots below dlgr_idx that hold `name`
Entries(st, name) == {i \in 0..(st.dlgr_idx - 1) : st.dlgr_modname[i] = name}

\* C9: dlgr_init of a name whose module.inf records a size, with another
\* valid size, returns ERR_REREGISTER and leaves module.inf and the registry
\* as they were.
C9_OtherSizeRejected ==
    (proc = "running" /\ cwd = Home /\ OnRecord /\ dlgr_idx < num_systems) =>
      \A n \in {m \in RecordSizes : ~SizeRejected(m) /\ m # RecordedSize} :
        \A o \in InitOutcomes(State, Eps, n) :
          /\ o.ret.rc = ERR_REREGISTER
          /\ o.st.disk = disk
          /\ o.st.dlgr_idx = dlgr_idx
          /\ o.st.dlgr_modname = dlgr_modname
          /\ o.st.dlgr_settings = dlgr_settings

\* C10: dlgr_init of a name registered in this run, with the size on record,
\* returns success, leaves one registry entry for the name, and leaves the
\* files, the index and the settings of the module as they were.
C10_SameSizeIdempotent ==
    (Ready(Eps) /\ OnRecord /\ dlgr_idx < num_systems) =>
      \A n \in {m \in RecordSizes : ~SizeRejected(m) /\ m = RecordedSize} :
        \A o \in InitOutcomes(State, Eps, n) :
          /\ o.ret.rc = OK
          /\ Cardinality(Entries(o.st, Eps)) = 1
          /\ o.st.disk = disk
          /\ o.st.dlgr_settings[Lookup(o.st, Eps)] = SlotOf(Eps)

(***************************************************************************)
(* C11: dlgr_init with a size below 1.                                     *)
(***************************************************************************)
\* sizes below 1 passed to dlgr_init
InvalidSizes == {-1, 0}

\* C11: dlgr_init with maxLogSize < 1 returns ERR_INVALID_INPUT and changes
\* nothing: no directory, no file, no registry slot, not dlgr_idx.
C11_InvalidSizeNoEffect ==
    proc = "running" =>
      \A n \in InvalidSizes :
        \A o \in InitOutcomes(State, Eps, n) :
          /\ o.ret.rc = ERR_INVALID_INPUT
          /\ o.st = State

\* C11 witness: dlgr_init with size 0 returns ERR_INVALID_INPUT, both where
\* nothing exists yet and where the module is registered and has logged.
C11_Witness ==
    /\ proc = "running"
    /\ \E o \in InitOutcomes(State, Eps, 0) : o.ret.rc = ERR_INVALID_INPUT
    /\ Lookup(State, Eps) < dlgr_idx
    /\ IsDir(disk, EpsDir)
    /\ \E f \in DatFiles(disk, EpsDir) : disk[EpsDir].dat[f] # <<>>

(***************************************************************************)
(* C12, C13: dlgr_LogData that fails.                                      *)
(***************************************************************************)
\* `name` was registered in this run, in a slot the lookup reaches
Registered(name) ==
    /\ proc = "running"
    /\ Lookup(State, name) < num_systems
    /\ Lookup(State, name) < dlgr_idx

\* C12: dlgr_LogData with size > record size returns ERR_MAXLOGSIZE_EXCEEDED
\* and changes no log file, neither the index of the slot nor index.inf, and
\* no setting.
C12_OversizedRejected ==
    Registered(Eps) =>
      \A n \in {m \in PayloadSizes : m > SlotOf(Eps).moduleLogSize},
         b \in PayloadBytes :
        \A o \in LogOutcomes(State, Eps, n, b) :
          /\ o.ret.rc = ERR_MAXLOGSIZE_EXCEEDED
          /\ o.st.disk = disk
          /\ o.st.dlgr_settings = dlgr_settings

\* C13: when remove() of the old file fails in a rotating dlgr_LogData, the
\* call reports the failure and the new file still holds the frame of the
\* call.
C13_FrameWrittenDespiteRemove ==
    Budgeted(Eps) =>
      \A n \in FullRecords(Eps), b \in PayloadBytes :
        \A o \in LogOutcomes(State, Eps, n, b) :
          (o.ret.rot /\ ~o.ret.removed) =>
            /\ o.ret.rc < 0
            /\ DatBytes(o.st.disk, EpsDir, o.ret.idx) = Frame(n, b)

(***************************************************************************)
(* C14..C17: the settings.                                                 *)
(***************************************************************************)
\* the hard limit of a setting
HardLimit(setting) ==
    IF setting = MAX_FILE_SIZE THEN SIZE_FILE_HARDLIMIT ELSE SIZE_DIR_HARDLIMIT

\* values around the limits, and the settings a caller can name
ProbeValues ==
    {-1, 0, 1, 20, SIZE_FILE_HARDLIMIT, SIZE_FILE_HARDLIMIT + 1,
     SIZE_DIR_HARDLIMIT, SIZE_DIR_HARDLIMIT + 1}

\* the field of datalogger_t a setting names, and the other one
FieldOf(setting) == IF setting = MAX_FILE_SIZE THEN "maxFileSize" ELSE "maxDirSize"
OtherOf(setting) == IF setting = MAX_FILE_SIZE THEN "maxDirSize" ELSE "maxFileSize"

\* what atoi makes of line 1 (maxFileSize) and line 2 (maxDirSize) of a
\* settings.cfg read whole
SettingLine(text, setting) ==
    IF setting = MAX_FILE_SIZE THEN Atoi(FGets(text, 20))
    ELSE Atoi(FGets(AfterFGets(text, 20), 20))

\* the call (value, setting) is one editSetting must refuse
Refused(value, setting) ==
    \/ setting \notin {MAX_FILE_SIZE, MAX_DIR_SIZE}
    \/ value < 1
    \/ value > HardLimit(setting)

\* C14: dlgr_EditSettings with a value below 1 or above the hard limit of the
\* field, or with an unknown field, fails and leaves every slot and every
\* file as it was.
C14_InvalidEditNoEffect ==
    proc = "running" =>
      \A v \in ProbeValues, f \in EditSettingIds :
        Refused(v, f) =>
          \A o \in EditOutcomes(State, Eps, v, f) :
            /\ o.ret.rc < 0
            /\ o.st.disk = disk
            /\ o.st.dlgr_settings = dlgr_settings

\* C14 witness: a registered module with both settings assigned, for which a
\* value is refused with ERR_SETTINGS_SET and a field with ERR_DEFAULT_CASE.
C14_Witness ==
    /\ Ready(Eps) /\ SettingsCached(Eps)
    /\ \E o \in EditOutcomes(State, Eps, SIZE_FILE_HARDLIMIT + 1, MAX_FILE_SIZE) :
          o.ret.rc = ERR_SETTINGS_SET
    /\ \E o \in EditOutcomes(State, Eps, 0, MAX_DIR_SIZE) :
          o.ret.rc = ERR_SETTINGS_SET
    /\ \E o \in EditOutcomes(State, Eps, 20, 2) : o.ret.rc = ERR_DEFAULT_CASE

\* C15: after a dlgr_EditSettings(value, setting) that returns success, the
\* field of the slot and its line of settings.cfg equal value, and the other
\* field keeps its value, in the slot and in settings.cfg.
C15_EditChangesOneField ==
    Ready(Eps) =>
      \A v \in ProbeValues, f \in {MAX_FILE_SIZE, MAX_DIR_SIZE} :
        \A o \in EditOutcomes(State, Eps, v, f) :
          o.ret.rc = OK =>
            LET old == disk[EpsDir].txt["settings.cfg"]
                new == o.st.disk[EpsDir].txt["settings.cfg"]
                g == IF f = MAX_FILE_SIZE THEN MAX_DIR_SIZE ELSE MAX_FILE_SIZE
                slot == o.st.dlgr_settings[Lookup(State, Eps)]
            IN
            /\ FieldValues(slot, FieldOf(f)) = {v}
            /\ SettingLine(new, f) = v
            /\ FieldValues(slot, OtherOf(f)) = FieldValues(SlotOf(Eps), OtherOf(f))
            /\ SettingLine(new, g) = SettingLine(old, g)

\* C16: after the first dlgr_init of a module without settings.cfg, the slot
\* holds the defaults written to settings.cfg, 8192 and 4194304.
C16_DefaultsCached ==
    (proc = "running" /\ cwd = Home /\ ~IsDir(disk, EpsDir)) =>
      \A n \in {m \in RecordSizes : ~SizeRejected(m)} :
        \A o \in InitOutcomes(State, Eps, n) :
          LET slot == o.st.dlgr_settings[Lookup(o.st, Eps)]
              text == o.st.disk[EpsDir].txt["settings.cfg"]
          IN
          /\ o.ret.rc = OK
          /\ text = DefaultSettingsText
          /\ FieldValues(slot, "maxFileSize") = {SettingLine(text, MAX_FILE_SIZE)}
          /\ FieldValues(slot, "maxDirSize") = {SettingLine(text, MAX_DIR_SIZE)}

\* C17: whenever the module is registered, the maxFileSize its slot yields
\* lies in 1..1048576 and the maxDirSize in 1..16777216.
C17_SettingsWithinLimits ==
    Registered(Eps) =>
      /\ \A v \in FieldValues(SlotOf(Eps), "maxFileSize") :
            1 <= v /\ v <= SIZE_FILE_HARDLIMIT
      /\ \A v \in FieldValues(SlotOf(Eps), "maxDirSize") :
            1 <= v /\ v <= SIZE_DIR_HARDLIMIT

(***************************************************************************)
(* C19, C20: dlgr_init over the files of an earlier run.                   *)
(***************************************************************************)
\* the largest element of a non-empty set of integers
Highest(S) == CHOOSE x \in S : \A y \in S : y <= x

\* the index index.inf of "eps" holds
PersistedIndex == Atoi(FGets(disk[EpsDir].txt["index.inf"], 20))

\* a run is starting over the files of "eps": nothing is registered yet and
\* index.inf holds a number
Restarted ==
    /\ proc = "running" /\ cwd = Home /\ dlgr_idx = 0
    /\ IsDir(disk, EpsDir)
    /\ HasTxt(disk, EpsDir, "module.inf")
    /\ HasTxt(disk, EpsDir, "index.inf")
    /\ FGets(disk[EpsDir].txt["index.inf"], 20) # <<>>

\* C19: when index.inf names a .dat file that does not exist, or .dat files
\* exist beyond it, dlgr_init sets the index of the slot to the highest index
\* a file exists for, so that the next dlgr_LogData opens an existing file.
C19_IndexReconciled ==
    (/\ Restarted
     /\ DatFiles(disk, EpsDir) # {}
     /\ \/ PersistedIndex \notin DatFiles(disk, EpsDir)
        \/ \E f \in DatFiles(disk, EpsDir) : f > PersistedIndex) =>
      \A n \in {m \in RecordSizes : ~SizeRejected(m)} :
        \A o \in InitOutcomes(State, Eps, n) :
          LET slot == o.st.dlgr_settings[Lookup(o.st, Eps)] IN
          /\ o.ret.rc = OK
          /\ FieldValues(slot, "logIndex") = {Highest(DatFiles(disk, EpsDir))}
          /\ HasDat(o.st.disk, EpsDir, slot.logIndex)

\* C20: dlgr_init in the run that follows a clean restart gives the slot the
\* record size, maxFileSize, maxDirSize and index the module had when the
\* earlier run ended, and leaves every file as it was.
C20_RestoredAfterRestart ==
    Registered(Eps) =>
      \A n \in {m \in RecordSizes : ~SizeRejected(m)} :
        \A o \in InitOutcomes(Booted(disk), Eps, n) :
          LET slot == o.st.dlgr_settings[Lookup(o.st, Eps)] IN
          /\ o.ret.rc = OK
          /\ \A f \in {"moduleLogSize", "maxFileSize", "maxDirSize", "logIndex"} :
                FieldValues(slot, f) = FieldValues(SlotOf(Eps), f)
          /\ o.st.disk = disk

(***************************************************************************)
(* C18: the index over appends and over a crash inside an append.          *)
(***************************************************************************)
\* the index dlgr_init loads in the run that follows, over the files d
LoadedIndices(d) ==
    UNION { FieldValues(o.st.dlgr_settings[Lookup(o.st, Eps)], "logIndex") :
              o \in UNION {InitOutcomes(Booted(d), Eps, n) :
                             n \in {m \in RecordSizes : ~SizeRejected(m)}} }

\* C18: the index of the module never decreases over a dlgr_LogData, and
\* when the process dies at any point of a dlgr_LogData, the index dlgr_init
\* loads in the next run is at least the index the module had after the last
\* dlgr_LogData that returned.
C18_IndexNeverDecreases ==
    (Ready(Eps) /\ SettingsCached(Eps)) =>
      \A n \in PayloadSizes, b \in PayloadBytes :
        /\ \A o \in LogOutcomes(State, Eps, n, b) :
              o.st.dlgr_settings[Lookup(State, Eps)].logIndex
                 >= SlotOf(Eps).logIndex
        /\ \A c \in LogCrashOutcomes(State, Eps, n, b) :
              \A v \in LoadedIndices(c.st.disk) : v >= SlotOf(Eps).logIndex

(***************************************************************************)
(* C21: calls that name a module nothing registered.                       *)
(***************************************************************************)
\* no slot the lookup passes holds `name`
Unregistered(name) == \A i \in 0..(num_systems - 1) : dlgr_modname[i] # name

\* C21: dlgr_LogData, dlgr_RetrieveData, dlgr_EditSettings and
\* dlgr_QueryMemorySize called with a name that was never registered fail
\* (a negative return value) and leave every file and every slot as they
\* were.
C21_UnregisteredRejected ==
    (Ready(Eps) /\ Unregistered(Acs)) =>
      /\ \A n \in PayloadSizes, b \in PayloadBytes :
           \A o \in LogOutcomes(State, Acs, n, b) :
             o.ret.rc < 0 /\ o.st.disk = disk
                          /\ o.st.dlgr_settings = dlgr_settings
      /\ \A c \in RequestCounts :
           \A o \in RetrieveDataOutcomes(State, Acs, c) :
             o.ret.rc < 0 /\ o.st.disk = disk
                          /\ o.st.dlgr_settings = dlgr_settings
      /\ \A v \in EditValues, f \in EditSettingIds :
           \A o \in EditOutcomes(State, Acs, v, f) :
             o.ret.rc < 0 /\ o.st.disk = disk
                          /\ o.st.dlgr_settings = dlgr_settings
      /\ \A c \in RequestCounts :
           \A r \in QueryMemorySize(State, Acs, c) : r < 0

(***************************************************************************)
(* C22: dlgr_QueryMemorySize of a registered module.                       *)
(***************************************************************************)
\* numbers of logs a caller can size a buffer for, a large one among them
QueryCounts == {0, 1, 2, 200000000}

\* r is the product count * s of the integers, count >= 0 and s > 0
IsProduct(r, count, s) ==
    IF count = 0 THEN r = 0
    ELSE r >= 0 /\ r % count = 0 /\ r \div count = s

\* C22: for a registered module and every count >= 0, dlgr_QueryMemorySize
\* returns exactly count * (record size + 10), the record size being the one
\* module.inf records, and dlgr_RetrieveData(count) leaves no more bytes than
\* that in output.
C22_QueryIsCountTimesFrame ==
    (Ready(Eps) /\ OnRecord) =>
      \A count \in QueryCounts :
        \A r \in QueryMemorySize(State, Eps, count) :
          /\ IsProduct(r, count, RecordedSize + 10)
          /\ count \in RequestCounts =>
               \A o \in RetrieveDataOutcomes(State, Eps, count) :
                  Len(o.ret.out) <= r

(***************************************************************************)
(* C23: two dlgr_RetrieveData in a row.                                    *)
(***************************************************************************)
\* C23: a dlgr_RetrieveData(count) that follows a dlgr_RetrieveData(count)
\* on the same module at once returns the same value and leaves the same
\* bytes in output.
C23_ReadsIdempotent ==
    Ready(Eps) =>
      \A count \in {c \in RequestCounts : c >= 0} :
        \A o1 \in RetrieveDataOutcomes(State, Eps, count) :
          o1.st.proc = "running" =>
            \A o2 \in RetrieveDataOutcomes(o1.st, Eps, count) :
              /\ o2.ret.rc = o1.ret.rc
              /\ o2.ret.out = o1.ret.out

(***************************************************************************)
(* C24: the number of appends that fills the first file.                   *)
(***************************************************************************)
\* the states k dlgr_LogData(Eps, n, b) in a row, each returning success,
\* lead to from the states sts
RECURSIVE AfterAppends(_, _, _, _)
AfterAppends(sts, k, n, b) ==
    IF k = 0 THEN sts
    ELSE AfterAppends(UNION { {o.st : o \in {x \in LogOutcomes(s, Eps, n, b) :
                                                 x.ret.rc = OK}} : s \in sts },
                      k - 1, n, b)

\* ceil(x / y) of positive integers
CeilDiv(x, y) == (x + y - 1) \div y

\* the module was registered, has logged nothing (index 0, 0.dat empty and
\* alone) and its settings were assigned, maxFileSize being 1 at least
FreshlyRegistered ==
    /\ Ready(Eps) /\ SettingsCached(Eps)
    /\ {"moduleLogSize", "logIndex"} \subseteq SlotOf(Eps).def
    /\ SlotOf(Eps).logIndex = 0
    /\ SlotOf(Eps).maxFileSize >= 1
    /\ IsDir(disk, EpsDir)
    /\ DatFiles(disk, EpsDir) = {0}
    /\ disk[EpsDir].dat[0] = <<>>

\* C24: from a freshly registered module with frame size S = 10 + record
\* size and maxFileSize F, ceil(F / S) dlgr_LogData that return success leave
\* the index at 1 and 0.dat no longer than F.
C24_OneRotationAfterCeil ==
    FreshlyRegistered =>
      \A n \in FullRecords(Eps), b \in PayloadBytes :
        LET F == SlotOf(Eps).maxFileSize
            S == 10 + SlotOf(Eps).moduleLogSize
        IN
        \A s \in AfterAppends({State}, CeilDiv(F, S), n, b) :
          /\ s.dlgr_settings[Lookup(State, Eps)].logIndex = 1
          /\ Len(DatBytes(s.disk, EpsDir, 0)) <= F

(***************************************************************************)
(* C25: the indices of the files a module keeps.                           *)
(***************************************************************************)
\* the .dat files of "eps" in state st are those of one range of indices
\* that ends at the index of the slot, the file of that index among them
Contiguous(st) ==
    LET files == DatFiles(st.disk, EpsDir)
        active == st.dlgr_settings[Lookup(st, Eps)].logIndex
    IN
    /\ active \in files
    /\ \A f \in files : f <= active
    /\ \A f \in files : \A g \in f..active : g \in files

\* C25: a dlgr_LogData or a dlgr_EditSettings that returns success, called
\* where the settings hold values of 1 at least and the files of the module
\* are the range of indices that ends at the index of the slot, leaves them
\* such a range, the file of the index existing.
C25_RetainedContiguous ==
    (/\ Ready(Eps) /\ SettingsCached(Eps)
     /\ SlotOf(Eps).maxFileSize >= 1 /\ SlotOf(Eps).maxDirSize >= 1
     /\ Contiguous(State)) =>
      /\ \A n \in FullRecords(Eps), b \in PayloadBytes :
           \A o \in LogOutcomes(State, Eps, n, b) :
             o.ret.rc = OK => Contiguous(o.st)
      /\ \A v \in EditValues, f \in EditSettingIds :
           \A o \in EditOutcomes(State, Eps, v, f) :
             o.ret.rc = OK => Contiguous(o.st)

(***************************************************************************)
(* C29: dlgr_LogData and dlgr_RetrieveData return.                         *)
(***************************************************************************)
\* C29: every dlgr_LogData and every dlgr_RetrieveData(count), count >= 0,
\* on a registered module whose settings were assigned returns: the process
\* is neither killed nor caught in a loop by the call.
C29_CallsReturn ==
    (Ready(Eps) /\ SettingsCached(Eps) /\ SlotOf(Eps).maxFileSize >= 1) =>
      /\ \A n \in PayloadSizes, b \in PayloadBytes :
           \A o \in LogOutcomes(State, Eps, n, b) :
             o.st.proc = "running" /\ o.ret.rc # KILLED
      /\ \A count \in {c \in RequestCounts : c >= 0} :
           \A o \in RetrieveDataOutcomes(State, Eps, count) :
             o.st.proc = "running" /\ o.ret.rc # KILLED

(***************************************************************************)
(* C26: two threads working for two modules.                               *)
(***************************************************************************)
\* the directories named after module m
DirsOf(d, m) == {p \in DOMAIN d : p # Home /\ p[Len(p)] = Str(m)}

\* one step of the threads: a call that returns reports, and leaves in the
\* directory of its module, what the same call does when no other thread
\* runs; and a step of a thread changes nothing in a directory of the module
\* of the other thread
C26_Step ==
    \A t \in Workers :
      LET th == run.thr[t]
          after == run'.thr[t]
      IN
      /\ (th.pc # "ret" /\ after.pc = "ret") =>
            [rc |-> after.rc,
             dir |-> DirAt(disk', Append(Append(th.base, "log"), Str(th.mod)))]
               \in th.want
      /\ after # th =>
            \A u \in Workers \ {t} :
              \A p \in DirsOf(disk, TwoModules[u]) :
                 p \in DOMAIN disk' /\ disk'[p] = disk[p]

\* C26: when two threads run dlgr_LogData, dlgr_RetrieveData and
\* dlgr_EditSettings on two different registered modules, every call returns
\* the value and leaves the files of its module as it does when run alone,
\* and no step of a call changes anything in the directory of the other
\* module.
C26_ModulesIndependent == [][C26_Step]_vars

(***************************************************************************)
(* C27, C28: two threads working for the same module.                      *)
(***************************************************************************)
\* thread th is inside the sequence of dlgr_LogData that reads the size of
\* the file, rotates, removes and writes
InSequence(th) ==
    th.pc \in {"log_open", "log_index", "log_create", "log_remove", "log_write"}

\* C27: two dlgr_LogData on the same module are serialised: no two threads
\* are inside the read-size / rotate / remove / write sequence at a time, no
\* file holds a part of a frame, and each of the calls runs that sequence,
\* none being turned away with ERR_CHDIR_FAIL while log/<module> exists
\* below the directory the calls start from.
C27_AppendsSerialised ==
    /\ \A t, u \in Workers :
         (t # u /\ Thr(t).mod = Thr(u).mod) =>
            ~(InSequence(Thr(t)) /\ InSequence(Thr(u)))
    /\ \A p \in DirsOf(disk, Eps) : \A f \in DOMAIN disk[p].dat :
         Len(disk[p].dat[f]) % (Len(FBEGIN) + PtrSize + Len(FEND)) = 0
    /\ \A t \in Workers :
         (Thr(t).pc = "ret" /\ Thr(t).op = "log"
            /\ Thr(t).rc = ERR_CHDIR_FAIL) =>
            ~IsDir(disk, Append(Append(Thr(t).base, "log"), Str(Thr(t).mod)))

C30_CooperativeShutdown ==
    /\ \A t \in Workers : Thr(t).lateIter = 0 /\ Thr(t).lateCall <= 1
    /\ run.main \in {"destroyed", "freed"} =>
         /\ run.joined = num_systems
         /\ \A t \in Workers : Thr(t).pc = "exited"

\* C30 witness: SIGINT came while a thread was inside an iteration; that
\* thread made its one call after it, every thread has exited, and main()
\* has joined them, destroyed the modules and freed the arrays.
C30_Witness ==
    /\ run.done = 1
    /\ run.main = "freed"
    /\ \E t \in Workers : Thr(t).lateCall = 1 /\ Thr(t).iterations >= 1
    /\ \A t \in Workers : Thr(t).pc = "exited"

(***************************************************************************)
(* C31: the working directory across a call.                               *)
(***************************************************************************)
\* the outcomes of every call the caller of "eps" can make in state st
CallOutcomes(st) ==
    UNION {
      UNION {InitOutcomes(st, Eps, n) : n \in RecordSizes},
      UNION {LogOutcomes(st, Eps, n, b) : n \in PayloadSizes, b \in PayloadBytes},
      UNION {RetrieveDataOutcomes(st, Eps, n) : n \in RequestCounts},
      UNION {EditOutcomes(st, Eps, v, f) : v \in EditValues, f \in EditSettingIds} }

\* the values dlgr_LogData("eps", n, b) can return in state st
LogReturns(st, n, b) == {o.ret.rc : o \in LogOutcomes(st, Eps, n, b)}

\* the call of outcome o returned to its caller
HasReturned(o) == o.st.proc = "running" /\ o.ret.rc # KILLED

\* C31: every dlgr_init, dlgr_LogData, dlgr_RetrieveData and
\* dlgr_EditSettings that returns, with success or with an error, leaves the
\* working directory of the process what it was when the call began; and
\* after a call that returned an error, a dlgr_LogData returns what it
\* returns when the working directory is the one the failed call began in.
C31_WorkingDirectoryKept ==
    proc = "running" =>
      \A o \in CallOutcomes(State) :
        HasReturned(o) =>
          /\ o.st.cwd = cwd
          /\ o.ret.rc < 0 =>
                \A n \in PayloadSizes, b \in PayloadBytes :
                  LogReturns(o.st, n, b)
                    = LogReturns([o.st EXCEPT !.cwd = cwd], n, b)

(***************************************************************************)
(* C32: the file a rotation removes.                                       *)
(***************************************************************************)
\* the settings of `name` hold values dlgr_EditSettings accepts
SettingsAccepted(name) ==
    /\ Ready(name) /\ SettingsCached(name)
    /\ ~ValueRejected(SlotOf(name).maxFileSize, SIZE_FILE_HARDLIMIT)
    /\ ~ValueRejected(SlotOf(name).maxDirSize, SIZE_DIR_HARDLIMIT)

\* C32: whatever accepted values the settings hold, maxDirSize below
\* maxFileSize included, a dlgr_LogData that rotates removes only a file of
\* an index below the new index of the slot, and when it returns success the
\* file of the new index exists and ends with the frame of the call.
C32_ActiveFileNotEvicted ==
    SettingsAccepted(Eps) =>
      \A n \in FullRecords(Eps), b \in PayloadBytes :
        \A o \in LogOutcomes(State, Eps, n, b) :
          o.ret.rot =>
            /\ o.ret.removed => o.ret.old < o.ret.idx
            /\ o.ret.rc = OK =>
                  /\ HasDat(o.st.disk, EpsDir, o.ret.idx)
                  /\ LastBytes(DatBytes(o.st.disk, EpsDir, o.ret.idx),
                               Len(Frame(n, b))) = Frame(n, b)

(***************************************************************************)
(* C33: the registry.                                                      *)
(***************************************************************************)
\* the names a caller can pass
Names == {Eps, EpsAlias, Acs}

\* dlgr_init was called with `name` and stored it
Stored(name) == \E i \in Slots : dlgr_modname[i] = name

\* the call of outcome o wrote to the registry
WroteRegistry(o) ==
    o.st.dlgr_modname # dlgr_modname \/ o.st.dlgr_settings # dlgr_settings

\* C33: a dlgr_init that writes dlgr_modname[dlgr_idx] or
\* dlgr_settings[dlgr_idx] does so with dlgr_idx below num_systems, the
\* number of elements allocated, whatever registrations came before; and
\* the lookup of a name dlgr_init stored finds a slot below num_systems that
\* a completed registration filled.
C33_RegistryWithinBounds ==
    proc = "running" =>
      /\ \A name \in Names, n \in RecordSizes :
            \A o \in InitOutcomes(State, name, n) :
              WroteRegistry(o) => dlgr_idx < num_systems
      /\ \A name \in Names :
            Stored(name) =>
              /\ Lookup(State, name) < num_systems
              /\ Lookup(State, name) < dlgr_idx
              /\ {"moduleLogSize", "logIndex"} \subseteq SlotOf(name).def

====
